---- MODULE Spec2Model ----
(***************************************************************************)
(* RcInterner<T> (src/src/rc_interner.rs): a HashSet<Rc<T>> keyed by the   *)
(* value each Rc points to, with try_intern / intern / intern_cloned /     *)
(* intern_boxed / shrink_to_fit, driven by a client that stores, clones    *)
(* and drops the returned Rc handles.  ArcInterner (arc_interner.rs) is    *)
(* the same text with Arc for Rc; used from one thread it takes the same   *)
(* steps.                                                                  *)
(*                                                                         *)
(* Spec      RcInterner<i32> and its client                                *)
(* SpecOwn   the same, with Weak<T> and the drop of the interner           *)
(* SpecEntry RcInterner<i32>, RcInterner<[i32]>, RcInterner<str>: every    *)
(*           entry point each of them has                                  *)
(* SpecPair  an RcInterner and an ArcInterner given the same calls         *)
(* SpecArc   an ArcInterner whose handles are held by other threads        *)
(***************************************************************************)
EXTENDS Integers, FiniteSets, Bags, TLC

\* ---- bounds ------------------------------------------------------------
MaxExtra == 0       \* values besides 42 and 1337
MaxHandles == 3     \* handles the client holds at a time (x, y, z)
MaxWeaks == 1       \* Weak<T> the client holds at a time
MaxSpare == 1       \* capacity a Vec or String has beyond its length
MaxThreads == 2     \* threads holding Arc handles, besides the table's owner

\* Option::None, and the content of a cell that holds no allocation
None == 0

Value == {42, 1337} \cup (1..MaxExtra)
\* Addresses of allocations: what Pool can grow to
Addr == 1..(Cardinality(Value) + 1 + MaxWeaks)

\* The memory the allocator serves from when n blocks hold nothing but are
\* kept by a Weak: those n, and one more block than can be live at a time
\* when equal values share an allocation, so it always has one to give
Pool(n) == 1..(Cardinality(Value) + 1 + n)

VARIABLES
    table,       \* self.0 : the set of Rc<T> held by the HashSet (addresses)
    heap,        \* address -> RcBox [val, strong]; strong = 0: no allocation
    handles,     \* the handles the client holds, a bag of [ptr, of]: the
                 \* address pointed at and the value the call was made with
    last,        \* the call that produced this state and what it returned
    interned,    \* values passed so far to intern / intern_cloned / intern_boxed
    registered,  \* per value, how many allocations were inserted in the table:
                 \* 0, 1, or 2 for two and more
    canon,       \* per value, the address the interner last returned for it,
                 \* None once shrink_to_fit removed that value's entry
    alive,       \* the interner has not been dropped
    weaks,       \* the Weak<T> the client holds, a bag of addresses
    kind,        \* what T is: "sized" (i32), "slice" ([i32]) or "str"
    arc,         \* an ArcInterner<T> given the same calls: its table, its
                 \* allocations, and what its last call returned
    run          \* the ArcInterner's threads: where its owner is in
                 \* shrink_to_fit, and the Arc::clone each other thread is in

vars == <<table, heap, handles, last, interned, registered, canon, alive, weaks,
          kind, arc, run>>

\* what belongs to other interners than this RcInterner<T>
others == <<kind, arc, run>>

\* what no method of the interner touches
aside == <<alive, weaks, others>>

\* ---- Rc<T> -------------------------------------------------------------
FreeCell == [val |-> None, strong |-> 0]

IsFree(hp, a) == hp[a].strong = 0

\* Rc::new(t): a fresh allocation holding t with strong count 1
RcNew(hp, a, t) == [hp EXCEPT ![a] = [val |-> t, strong |-> 1]]

\* Variant of RcClone: the pointer is copied, the count is left alone
RcCloneUncounted(hp, a) == hp

\* Rc::clone: one more strong reference to the same allocation
RcClone(hp, a) == [hp EXCEPT ![a].strong = @ + 1]

\* drop(Rc): one strong reference less; the last one destroys the value
RcDrop(hp, a) ==
    IF hp[a].strong = 1
    THEN [hp EXCEPT ![a] = FreeCell]
    ELSE [hp EXCEPT ![a].strong = @ - 1]

\* Rc::strong_count
\* Variant of StrongCount: Weak references are counted too
StrongCountAndWeak(hp, a) == hp[a].strong + CopiesIn(a, weaks)

StrongCount(hp, a) == hp[a].strong

\* ---- HashSet<Rc<T>> ----------------------------------------------------
\* Variant of Find: a probe that matches nothing (a hash that disagrees with
\* equality)
FindNothing(tbl, hp, t) == {}

\* The probe shared by get and insert: Rc<T> hashes and compares as the T it
\* points to, so an entry matches a key when its value equals the key.
Find(tbl, hp, t) == {a \in tbl : hp[a].val = t}

\* Variant of Get: whatever entry comes first, equal or not
GetAny(tbl, hp, t) ==
    IF tbl = {} THEN None ELSE CHOOSE a \in tbl : TRUE

\* HashSet::get(t)
Get(tbl, hp, t) ==
    IF Find(tbl, hp, t) = {} THEN None ELSE CHOOSE a \in Find(tbl, hp, t) : TRUE

\* Variant of HashSetInsert: a set of one, the new Rc takes the place of the
\* entries that were there
HashSetInsertEvicting(tbl, hp, a) ==
    [table |-> {a},
     heap |-> [b \in Addr |-> IF b \in tbl \ {a} THEN RcDrop(hp, b)[b] ELSE hp[b]]]

\* HashSet::insert(rc): the set takes the Rc unless an equal entry is there,
\* in which case the passed Rc is dropped
HashSetInsert(tbl, hp, a) ==
    IF Find(tbl, hp, hp[a].val) # {}
    THEN [table |-> tbl, heap |-> RcDrop(hp, a)]
    ELSE [table |-> tbl \cup {a}, heap |-> hp]

\* Variant of Retain: the predicate is strong_count >= 1
RetainAll(tbl, hp) ==
    LET kept == {a \in tbl : StrongCount(hp, a) >= 1}
        gone == tbl \ kept
    IN [table |-> kept,
        heap |-> [a \in Addr |-> IF a \in gone THEN RcDrop(hp, a)[a] ELSE hp[a]],
        removed |-> {hp[a].val : a \in gone}]

\* Variant of Retain: the predicate is strong_count > 2
RetainAboveTwo(tbl, hp) ==
    LET kept == {a \in tbl : StrongCount(hp, a) > 2}
        gone == tbl \ kept
    IN [table |-> kept,
        heap |-> [a \in Addr |-> IF a \in gone THEN RcDrop(hp, a)[a] ELSE hp[a]],
        removed |-> {hp[a].val : a \in gone}]

\* Variant of Retain: the scan stops at the first entry it removes
RetainOneAtATime(tbl, hp) ==
    LET cand == {a \in tbl : StrongCount(hp, a) <= 1}
        gone == IF cand = {} THEN {} ELSE {CHOOSE a \in cand : TRUE}
    IN [table |-> tbl \ gone,
        heap |-> [a \in Addr |-> IF a \in gone THEN RcDrop(hp, a)[a] ELSE hp[a]],
        removed |-> {hp[a].val : a \in gone}]

\* HashSet::retain(|value| Rc::strong_count(value) > 1): entries failing the
\* predicate are removed and their Rc dropped
Retain(tbl, hp) ==
    LET kept == {a \in tbl : StrongCount(hp, a) > 1}
        gone == tbl \ kept
    IN [table |-> kept,
        heap |-> [a \in Addr |-> IF a \in gone THEN RcDrop(hp, a)[a] ELSE hp[a]],
        removed |-> {hp[a].val : a \in gone}]

\* HashSet::shrink_to_fit: releases spare capacity, the entries stay
HashSetShrinkToFit(tbl) == tbl

\* ---- RcInterner<T> -----------------------------------------------------
\* Variant of TryInternOp: get-or-insert, a miss registers the value
TryInternOpInserting(tbl, hp, t) ==
    LET value == Get(tbl, hp, t) IN
    IF value # None
    THEN [table |-> tbl, heap |-> RcClone(hp, value), ret |-> value,
          hit |-> TRUE, fate |-> "borrowed", clones |-> 0]
    ELSE IF \A x \in Addr : ~IsFree(hp, x)
    THEN [table |-> tbl, heap |-> hp, ret |-> None,
          hit |-> FALSE, fate |-> "borrowed", clones |-> 0]
    ELSE LET a == CHOOSE x \in Addr : IsFree(hp, x) IN
         [table |-> tbl \cup {a}, heap |-> RcNew(hp, a, t), ret |-> None,
          hit |-> FALSE, fate |-> "borrowed", clones |-> 1]

\* try_intern(&self, t: &T) -> Option<Rc<T>>
TryInternOp(tbl, hp, t) ==
    LET value == Get(tbl, hp, t) IN
    IF value # None
    THEN [table |-> tbl, heap |-> RcClone(hp, value), ret |-> value,
          hit |-> TRUE, fate |-> "borrowed", clones |-> 0]
    ELSE [table |-> tbl, heap |-> hp, ret |-> None,
          hit |-> FALSE, fate |-> "borrowed", clones |-> 0]

\* Variant of InsertNew: the new Rc is returned but never inserted
InsertNewForgotten(tbl, hp, t, a) ==
    IF a = None
    THEN [table |-> tbl, heap |-> hp, ret |-> None]
    ELSE [table |-> tbl, heap |-> RcNew(hp, a, t), ret |-> a]

\* Variant of InsertNew: the set shares the new Rc without counting itself
InsertNewUncounted(tbl, hp, t, a) ==
    IF a = None
    THEN [table |-> tbl, heap |-> hp, ret |-> None]
    ELSE [table |-> tbl \cup {a}, heap |-> RcNew(hp, a, t), ret |-> a]

\* The miss branch common to the intern family: wrap the value in a new Rc at
\* address a, insert a clone of it in the set, return the Rc.  a is the
\* address the allocator gives; with a = None it has none to give, Rc::new
\* aborts and nothing is returned.
InsertNew(tbl, hp, t, a) ==
    IF a = None
    THEN [table |-> tbl, heap |-> hp, ret |-> None]
    ELSE LET ins == HashSetInsert(tbl, RcClone(RcNew(hp, a, t), a), a) IN
         [table |-> ins.table, heap |-> ins.heap, ret |-> a]

\* Variant of InternOp: no lookup, every call takes the insert branch
InternOpNoLookup(tbl, hp, t, a) ==
    LET n == InsertNew(tbl, hp, t, a) IN
    [table |-> n.table, heap |-> n.heap, ret |-> n.ret,
     hit |-> FALSE, fate |-> "moved", clones |-> 0]

\* Variant of InternOp: unreferenced entries are purged before the lookup
InternOpCompacting(tbl, hp, t, a) ==
    LET c == Retain(tbl, hp)
        value == Get(c.table, c.heap, t) IN
    IF value # None
    THEN [table |-> c.table, heap |-> RcClone(c.heap, value), ret |-> value,
          hit |-> TRUE, fate |-> "dropped", clones |-> 0]
    ELSE LET n == InsertNew(c.table, c.heap, t, a) IN
         [table |-> n.table, heap |-> n.heap, ret |-> n.ret,
          hit |-> FALSE, fate |-> "moved", clones |-> 0]

\* intern(&mut self, t: T) -> Rc<T>
InternOp(tbl, hp, t, a) ==
    LET value == Get(tbl, hp, t) IN
    IF value # None
    THEN [table |-> tbl, heap |-> RcClone(hp, value), ret |-> value,
          hit |-> TRUE, fate |-> "dropped", clones |-> 0]
    ELSE LET n == InsertNew(tbl, hp, t, a) IN
         [table |-> n.table, heap |-> n.heap, ret |-> n.ret,
          hit |-> FALSE, fate |-> "moved", clones |-> 0]

\* Variant of InternBoxedOp: no lookup, every call takes the insert branch
InternBoxedOpNoLookup(tbl, hp, t, a) ==
    LET n == InsertNew(tbl, hp, t, a) IN
    [table |-> n.table, heap |-> n.heap, ret |-> n.ret,
     hit |-> FALSE, fate |-> "moved", clones |-> 0]

\* Variant of InternBoxedOp: unreferenced entries are purged before the lookup
InternBoxedOpCompacting(tbl, hp, t, a) ==
    LET c == Retain(tbl, hp)
        value == Get(c.table, c.heap, t) IN
    IF value # None
    THEN [table |-> c.table, heap |-> RcClone(c.heap, value), ret |-> value,
          hit |-> TRUE, fate |-> "dropped", clones |-> 0]
    ELSE LET n == InsertNew(c.table, c.heap, t, a) IN
         [table |-> n.table, heap |-> n.heap, ret |-> n.ret,
          hit |-> FALSE, fate |-> "moved", clones |-> 0]

\* intern_boxed(&mut self, t: Box<T>) -> Rc<T>
InternBoxedOp(tbl, hp, t, a) ==
    LET value == Get(tbl, hp, t) IN
    IF value # None
    THEN [table |-> tbl, heap |-> RcClone(hp, value), ret |-> value,
          hit |-> TRUE, fate |-> "dropped", clones |-> 0]
    ELSE LET n == InsertNew(tbl, hp, t, a) IN
         [table |-> n.table, heap |-> n.heap, ret |-> n.ret,
          hit |-> FALSE, fate |-> "moved", clones |-> 0]

\* Variant of InternClonedOp: the argument is cloned before the lookup
InternClonedOpEager(tbl, hp, t, a) ==
    LET value == Get(tbl, hp, t) IN
    IF value # None
    THEN [table |-> tbl, heap |-> RcClone(hp, value), ret |-> value,
          hit |-> TRUE, fate |-> "borrowed", clones |-> 1]
    ELSE LET n == InsertNew(tbl, hp, t, a) IN
         [table |-> n.table, heap |-> n.heap, ret |-> n.ret,
          hit |-> FALSE, fate |-> "borrowed", clones |-> 1]

\* intern_cloned(&mut self, t: &T) -> Rc<T>
InternClonedOp(tbl, hp, t, a) ==
    LET value == Get(tbl, hp, t) IN
    IF value # None
    THEN [table |-> tbl, heap |-> RcClone(hp, value), ret |-> value,
          hit |-> TRUE, fate |-> "borrowed", clones |-> 0]
    ELSE LET n == InsertNew(tbl, hp, t, a) IN
         [table |-> n.table, heap |-> n.heap, ret |-> n.ret,
          hit |-> FALSE, fate |-> "borrowed", clones |-> 1]

\* shrink_to_fit(&mut self)
ShrinkToFitOp(tbl, hp) ==
    LET r == Retain(tbl, hp) IN
    [table |-> HashSetShrinkToFit(r.table), heap |-> r.heap, removed |-> r.removed]

\* ---- the program -------------------------------------------------------
NoCall == [op |-> "new", arg |-> None, ret |-> None, hit |-> FALSE,
           fate |-> "none", clones |-> 0, removed |-> {}, again |-> FALSE]

\* What the caller holds more after a call with argument t returned
\* Some(ptr) or None
Handle(ptr, t) ==
    IF ptr = None THEN EmptyBag ELSE SetToBag({[ptr |-> ptr, of |-> t]})

\* The client keeps at most MaxHandles handles
CanHold(ptr) == ptr = None \/ BagCardinality(handles) < MaxHandles

\* RcInterner::new(): an empty set; the client holds no handle yet
\* ArcInterner::new(), no call made yet
ArcNone == [table |-> {}, heap |-> [a \in Addr |-> FreeCell], ret |-> None,
            hit |-> FALSE, removed |-> {}]

\* the threads that hold handles
Thread == 1..MaxThreads

\* a thread that is not inside Arc::clone
NoClone == [ptr |-> None, seen |-> 0]

\* no call in progress on any thread
Idle == [pc |-> "idle", todo |-> {}, at |-> None, seen |-> 0, removed |-> {},
         pend |-> [w \in Thread |-> NoClone]]

Init ==
    /\ table = {}
    /\ heap = [a \in Addr |-> FreeCell]
    /\ handles = EmptyBag
    /\ last = NoCall
    /\ interned = {}
    /\ registered = [v \in Value |-> 0]
    /\ canon = [v \in Value |-> None]
    /\ alive = TRUE
    /\ weaks = EmptyBag
    /\ kind = "sized"
    /\ arc = ArcNone
    /\ run = Idle

\* Counting insertions: none, one, several
OneMore(n) == IF n < 2 THEN n + 1 ELSE n

\* The result r of an insert-or-get call with argument t, returned to the
\* client
Effect(name, r, t) ==
    /\ r.ret # None
    /\ CanHold(r.ret)
    /\ table' = r.table
    /\ heap' = r.heap
    /\ handles' = handles (+) Handle(r.ret, t)
    /\ last' = [op |-> name, arg |-> t, ret |-> r.ret, hit |-> r.hit,
                fate |-> r.fate, clones |-> r.clones, removed |-> {},
                again |-> FALSE]

\* ... and the record kept of what was interned and where
Returned(name, r, t) ==
    /\ Effect(name, r, t)
    /\ interned' = interned \cup {t}
    /\ registered' = IF r.hit THEN registered
                     ELSE [registered EXCEPT ![t] = OneMore(@)]
    /\ canon' = [canon EXCEPT ![t] = r.ret]
    /\ UNCHANGED aside

\* the blocks whose value was destroyed and that a Weak still points at:
\* their memory is not given back
Pinned == {a \in Addr : IsFree(heap, a) /\ CopiesIn(a, weaks) > 0}

\* What the allocator may hand out during a call, r0 being the call made
\* with nothing to hand out: a call that returns then allocates nothing, any
\* other is given one of the blocks that hold no allocation and are not
\* pinned
CanAlloc(r0) ==
    IF r0.ret # None THEN {None}
    ELSE {a \in Pool(Cardinality(Pinned)) : IsFree(heap, a) /\ a \notin Pinned}

\* let h = interner.try_intern(&t);
TryIntern ==
    \E t \in Value :
        /\ LET r == TryInternOp(table, heap, t) IN
            /\ CanHold(r.ret)
            /\ table' = r.table
            /\ heap' = r.heap
            /\ handles' = handles (+) Handle(r.ret, t)
            /\ last' = [op |-> "try_intern", arg |-> t, ret |-> r.ret,
                        hit |-> r.hit, fate |-> r.fate, clones |-> r.clones,
                        removed |-> {}, again |-> FALSE]
        /\ UNCHANGED <<interned, registered, canon, aside>>

\* let h = interner.intern(t);
Intern ==
    \E t \in Value :
        \E a \in CanAlloc(InternOp(table, heap, t, None)) :
            Returned("intern", InternOp(table, heap, t, a), t)

\* let h = interner.intern_boxed(Box::new(t));
InternBoxed ==
    \E t \in Value :
        \E a \in CanAlloc(InternBoxedOp(table, heap, t, None)) :
            Returned("intern_boxed", InternBoxedOp(table, heap, t, a), t)

\* let h = interner.intern_cloned(&t);
InternCloned ==
    \E t \in Value :
        \E a \in CanAlloc(InternClonedOp(table, heap, t, None)) :
            Returned("intern_cloned", InternClonedOp(table, heap, t, a), t)

\* interner.shrink_to_fit();
ShrinkToFit ==
    LET r == ShrinkToFitOp(table, heap) IN
    /\ table' = r.table
    /\ heap' = r.heap
    /\ last' = [NoCall EXCEPT !.op = "shrink_to_fit", !.removed = r.removed,
                              !.again = (last.op = "shrink_to_fit")]
    /\ canon' = [v \in Value |-> IF v \in r.removed THEN None ELSE canon[v]]
    /\ UNCHANGED <<handles, interned, registered, aside>>

\* let z = h.clone();
CloneHandle ==
    \E h \in BagToSet(handles) :
        /\ BagCardinality(handles) < MaxHandles
        /\ heap' = RcClone(heap, h.ptr)
        /\ handles' = handles (+) SetToBag({h})
        /\ last' = [NoCall EXCEPT !.op = "clone"]
        /\ UNCHANGED <<table, interned, registered, canon, aside>>

\* drop(h);
DropHandle ==
    \E h \in BagToSet(handles) :
        /\ heap' = RcDrop(heap, h.ptr)
        /\ handles' = handles (-) SetToBag({h})
        /\ last' = [NoCall EXCEPT !.op = "drop"]
        /\ UNCHANGED <<table, interned, registered, canon, aside>>

Next ==
    \/ TryIntern
    \/ Intern
    \/ InternBoxed
    \/ InternCloned
    \/ ShrinkToFit
    \/ CloneHandle
    \/ DropHandle

Spec == Init /\ [][Next]_vars

\* ---- shape of the state ------------------------------------------------
TypeOK ==
    /\ table \subseteq Addr
    /\ heap \in [Addr -> [val : Value \cup {None}, strong : 0..(MaxHandles + 1)]]
    /\ IsABag(handles)
    /\ BagToSet(handles) \subseteq [ptr : Addr, of : Value]
    /\ BagCardinality(handles) <= MaxHandles
    /\ canon \in [Value -> Addr \cup {None}]
    /\ interned \subseteq Value
    /\ registered \in [Value -> 0..2]
    /\ alive \in BOOLEAN
    /\ IsABag(weaks)
    /\ BagToSet(weaks) \subseteq Addr
    /\ BagCardinality(weaks) <= MaxWeaks
    /\ kind = "sized"
    /\ arc = ArcNone
    /\ run = Idle

\* ---- the interner's end of life, and Weak<T> ----------------------------
\* Rc::weak_count
WeakCount(a) == CopiesIn(a, weaks)

\* Variant of DropOp: the table frees its allocations whoever else holds them
DropOpFreeing(tbl, hp) ==
    [a \in Addr |-> IF a \in tbl THEN FreeCell ELSE hp[a]]

\* drop of the HashSet<Rc<T>>: every Rc the set holds is dropped
DropOp(tbl, hp) ==
    [a \in Addr |-> IF a \in tbl THEN RcDrop(hp, a)[a] ELSE hp[a]]

\* Weak::upgrade: None once the value was destroyed, a new Rc otherwise
UpgradeOp(hp, a) ==
    IF StrongCount(hp, a) = 0 THEN [heap |-> hp, ret |-> None]
    ELSE [heap |-> RcClone(hp, a), ret |-> a]

\* the interner's methods need an interner
LiveTryIntern == alive /\ TryIntern
LiveIntern ==
    /\ alive
    /\ \E t \in Value : \E a \in CanAlloc(InternOp(table, heap, t, None)) :
           Effect("intern", InternOp(table, heap, t, a), t)
    /\ UNCHANGED <<interned, registered, canon, aside>>
LiveShrinkToFit == alive /\ ShrinkToFit

\* drop(interner);
DropInterner ==
    /\ alive
    /\ alive' = FALSE
    /\ table' = {}
    /\ heap' = DropOp(table, heap)
    /\ last' = [NoCall EXCEPT !.op = "drop_interner",
                              !.removed = {heap[a].val : a \in
                                   {b \in table : StrongCount(heap, b) = 1}}]
    /\ canon' = [v \in Value |-> None]
    /\ UNCHANGED <<handles, interned, registered, weaks, others>>

\* let w = Rc::downgrade(&h);
Downgrade ==
    \E h \in BagToSet(handles) :
        /\ BagCardinality(weaks) < MaxWeaks
        /\ weaks' = weaks (+) SetToBag({h.ptr})
        /\ last' = [NoCall EXCEPT !.op = "downgrade"]
        /\ UNCHANGED <<table, heap, handles, interned, registered, canon, alive,
                       others>>

\* let h = w.upgrade();
Upgrade ==
    \E a \in BagToSet(weaks) :
        LET r == UpgradeOp(heap, a) IN
        /\ CanHold(r.ret)
        /\ heap' = r.heap
        /\ handles' = handles (+) Handle(r.ret, heap[a].val)
        /\ last' = [NoCall EXCEPT !.op = "upgrade", !.arg = a, !.ret = r.ret]
        /\ UNCHANGED <<table, interned, registered, canon, alive, weaks, others>>

\* drop(w);
DropWeak ==
    \E a \in BagToSet(weaks) :
        /\ weaks' = weaks (-) SetToBag({a})
        /\ last' = [NoCall EXCEPT !.op = "drop_weak"]
        /\ UNCHANGED <<table, heap, handles, interned, registered, canon, alive,
                       others>>

NextOwn ==
    \/ LiveTryIntern
    \/ LiveIntern
    \/ LiveShrinkToFit
    \/ CloneHandle
    \/ DropHandle
    \/ DropInterner
    \/ Downgrade
    \/ Upgrade
    \/ DropWeak

SpecOwn == Init /\ [][NextOwn]_vars

\* ---- the entry points of RcInterner<T>, RcInterner<[T]>, RcInterner<str> --
Kinds == {"sized", "slice", "str"}
SliceValue == {<<1, 2, 3>>, <<1, 2>>}
StrValue == {"hello", "world"}

\* the values of type T
ValueOf(k) ==
    IF k = "slice" THEN SliceValue ELSE IF k = "str" THEN StrValue ELSE Value

\* Vec<T> and String: the content and the unused capacity behind it
BufferOf(k) == [data : ValueOf(k), spare : 0..MaxSpare]

\* Vec::into_boxed_slice: the content, the spare capacity given back
IntoBoxedSlice(v) == v.data

\* String::into_boxed_str
IntoBoxedStr(s) == s.data

\* Rc::from(&[T]) / Rc::from(&str): the content, cloned
RcFrom(t) == t

\* Variant of InternSliceOp: no lookup, the slice is always copied and inserted
InternSliceOpNoLookup(tbl, hp, t, a) ==
    LET n == InsertNew(tbl, hp, RcFrom(t), a) IN
    [table |-> n.table, heap |-> n.heap, ret |-> n.ret,
     hit |-> FALSE, fate |-> "borrowed", clones |-> 1]

\* intern_slice(&mut self, t: &[T]) -> Rc<[T]>
InternSliceOp(tbl, hp, t, a) ==
    LET value == Get(tbl, hp, t) IN
    IF value # None
    THEN [table |-> tbl, heap |-> RcClone(hp, value), ret |-> value,
          hit |-> TRUE, fate |-> "borrowed", clones |-> 0]
    ELSE LET n == InsertNew(tbl, hp, RcFrom(t), a) IN
         [table |-> n.table, heap |-> n.heap, ret |-> n.ret,
          hit |-> FALSE, fate |-> "borrowed", clones |-> 1]

\* intern_vec(&mut self, t: Vec<T>) -> Rc<[T]>
InternVecOp(tbl, hp, t, a) == InternBoxedOp(tbl, hp, IntoBoxedSlice(t), a)

\* intern_str(&mut self, t: &str) -> Rc<str>
InternStrOp(tbl, hp, t, a) ==
    LET value == Get(tbl, hp, t) IN
    IF value # None
    THEN [table |-> tbl, heap |-> RcClone(hp, value), ret |-> value,
          hit |-> TRUE, fate |-> "borrowed", clones |-> 0]
    ELSE LET n == InsertNew(tbl, hp, RcFrom(t), a) IN
         [table |-> n.table, heap |-> n.heap, ret |-> n.ret,
          hit |-> FALSE, fate |-> "borrowed", clones |-> 1]

\* intern_string(&mut self, t: String) -> Rc<str>
InternStringOp(tbl, hp, t, a) == InternBoxedOp(tbl, hp, IntoBoxedStr(t), a)

\* a handle, and the entry point that returned it
HandleBy(ptr, t, name) ==
    IF ptr = None THEN EmptyBag
    ELSE SetToBag({[ptr |-> ptr, of |-> t, by |-> name]})

\* The result r of the call name(t), t the content passed, returned to the
\* client
EffectBy(name, r, t) ==
    /\ CanHold(r.ret)
    /\ table' = r.table
    /\ heap' = r.heap
    /\ handles' = handles (+) HandleBy(r.ret, t, name)
    /\ last' = [op |-> name, arg |-> t, ret |-> r.ret, hit |-> r.hit,
                fate |-> r.fate, clones |-> r.clones, removed |-> {},
                again |-> FALSE]
    /\ UNCHANGED <<interned, registered, canon, aside>>

InitEntry ==
    /\ table = {}
    /\ heap = [a \in Addr |-> FreeCell]
    /\ handles = EmptyBag
    /\ last = NoCall
    /\ interned = {}
    /\ registered = [v \in Value |-> 0]
    /\ canon = [v \in Value |-> None]
    /\ alive = TRUE
    /\ weaks = EmptyBag
    /\ kind \in Kinds
    /\ arc = ArcNone
    /\ run = Idle

EntryTryIntern ==
    \E t \in ValueOf(kind) :
        EffectBy("try_intern", TryInternOp(table, heap, t), t)

EntryInternBoxed ==
    \E t \in ValueOf(kind) :
        \E a \in CanAlloc(InternBoxedOp(table, heap, t, None)) :
            LET r == InternBoxedOp(table, heap, t, a) IN
            r.ret # None /\ EffectBy("intern_boxed", r, t)

EntryIntern ==
    /\ kind = "sized"
    /\ \E t \in ValueOf(kind) :
        \E a \in CanAlloc(InternOp(table, heap, t, None)) :
            LET r == InternOp(table, heap, t, a) IN
            r.ret # None /\ EffectBy("intern", r, t)

EntryInternCloned ==
    /\ kind = "sized"
    /\ \E t \in ValueOf(kind) :
        \E a \in CanAlloc(InternClonedOp(table, heap, t, None)) :
            LET r == InternClonedOp(table, heap, t, a) IN
            r.ret # None /\ EffectBy("intern_cloned", r, t)

InternSlice ==
    /\ kind = "slice"
    /\ \E t \in ValueOf(kind) :
        \E a \in CanAlloc(InternSliceOp(table, heap, t, None)) :
            LET r == InternSliceOp(table, heap, t, a) IN
            r.ret # None /\ EffectBy("intern_slice", r, t)

InternVec ==
    /\ kind = "slice"
    /\ \E v \in BufferOf(kind) :
        \E a \in CanAlloc(InternVecOp(table, heap, v, None)) :
            LET r == InternVecOp(table, heap, v, a) IN
            r.ret # None /\ EffectBy("intern_vec", r, IntoBoxedSlice(v))

InternStr ==
    /\ kind = "str"
    /\ \E t \in ValueOf(kind) :
        \E a \in CanAlloc(InternStrOp(table, heap, t, None)) :
            LET r == InternStrOp(table, heap, t, a) IN
            r.ret # None /\ EffectBy("intern_str", r, t)

InternString ==
    /\ kind = "str"
    /\ \E s \in BufferOf(kind) :
        \E a \in CanAlloc(InternStringOp(table, heap, s, None)) :
            LET r == InternStringOp(table, heap, s, a) IN
            r.ret # None /\ EffectBy("intern_string", r, IntoBoxedStr(s))

EntryShrinkToFit ==
    LET r == ShrinkToFitOp(table, heap) IN
    /\ table' = r.table
    /\ heap' = r.heap
    /\ last' = [NoCall EXCEPT !.op = "shrink_to_fit", !.removed = r.removed,
                              !.again = (last.op = "shrink_to_fit")]
    /\ UNCHANGED <<handles, interned, registered, canon, aside>>

NextEntry ==
    \/ EntryTryIntern
    \/ EntryInternBoxed
    \/ EntryIntern
    \/ EntryInternCloned
    \/ InternSlice
    \/ InternVec
    \/ InternStr
    \/ InternString
    \/ EntryShrinkToFit
    \/ CloneHandle
    \/ DropHandle

SpecEntry == InitEntry /\ [][NextEntry]_vars

\* ---- ArcInterner<T> (arc_interner.rs), side by side with RcInterner<T> ---
\* Arc::new / Arc::from(Box<T>): a fresh allocation with one strong reference
ArcNew(hp, a, t) == [hp EXCEPT ![a] = [val |-> t, strong |-> 1]]

\* Arc::clone: fetch_add(1) on the strong count
ArcClone(hp, a) == [hp EXCEPT ![a].strong = @ + 1]

\* drop of an Arc: fetch_sub(1), the value freed by whoever took the last one
ArcDrop(hp, a) ==
    IF hp[a].strong = 1 THEN [hp EXCEPT ![a] = FreeCell]
    ELSE [hp EXCEPT ![a].strong = @ - 1]

\* Arc::strong_count: a load of the strong count
ArcStrongCount(hp, a) == hp[a].strong

\* HashSet<Arc<T>>::insert
ArcHashSetInsert(tbl, hp, a) ==
    IF Find(tbl, hp, hp[a].val) # {}
    THEN [table |-> tbl, heap |-> ArcDrop(hp, a)]
    ELSE [table |-> tbl \cup {a}, heap |-> hp]

\* Variant of ArcRetain: entries are kept from a count of 1 on
ArcRetainAll(tbl, hp) ==
    [table |-> tbl, heap |-> hp, removed |-> {}]

\* HashSet::retain(|value| Arc::strong_count(value) > 1)
ArcRetain(tbl, hp) ==
    LET kept == {a \in tbl : ArcStrongCount(hp, a) > 1}
        gone == tbl \ kept
    IN [table |-> kept,
        heap |-> [a \in Addr |-> IF a \in gone THEN ArcDrop(hp, a)[a] ELSE hp[a]],
        removed |-> {hp[a].val : a \in gone}]

\* ArcInterner::try_intern
ArcTryInternOp(tbl, hp, t) ==
    LET value == Get(tbl, hp, t) IN
    IF value # None
    THEN [table |-> tbl, heap |-> ArcClone(hp, value), ret |-> value, hit |-> TRUE]
    ELSE [table |-> tbl, heap |-> hp, ret |-> None, hit |-> FALSE]

\* let value = Arc::new(t); self.0.insert(value.clone()); value
ArcInsertNew(tbl, hp, t, a) ==
    IF a = None
    THEN [table |-> tbl, heap |-> hp, ret |-> None]
    ELSE LET ins == ArcHashSetInsert(tbl, ArcClone(ArcNew(hp, a, t), a), a) IN
         [table |-> ins.table, heap |-> ins.heap, ret |-> a]

\* ArcInterner::intern
ArcInternOp(tbl, hp, t, a) ==
    LET value == Get(tbl, hp, t) IN
    IF value # None
    THEN [table |-> tbl, heap |-> ArcClone(hp, value), ret |-> value, hit |-> TRUE]
    ELSE LET n == ArcInsertNew(tbl, hp, t, a) IN
         [table |-> n.table, heap |-> n.heap, ret |-> n.ret, hit |-> FALSE]

\* ArcInterner::intern_boxed
ArcInternBoxedOp(tbl, hp, t, a) ==
    LET value == Get(tbl, hp, t) IN
    IF value # None
    THEN [table |-> tbl, heap |-> ArcClone(hp, value), ret |-> value, hit |-> TRUE]
    ELSE LET n == ArcInsertNew(tbl, hp, t, a) IN
         [table |-> n.table, heap |-> n.heap, ret |-> n.ret, hit |-> FALSE]

\* ArcInterner::intern_cloned
ArcInternClonedOp(tbl, hp, t, a) ==
    LET value == Get(tbl, hp, t) IN
    IF value # None
    THEN [table |-> tbl, heap |-> ArcClone(hp, value), ret |-> value, hit |-> TRUE]
    ELSE LET n == ArcInsertNew(tbl, hp, t, a) IN
         [table |-> n.table, heap |-> n.heap, ret |-> n.ret, hit |-> FALSE]

\* Arc::from(&[T]) / Arc::from(&str): the content, cloned
ArcFrom(t) == t

\* ArcInterner::intern_slice
ArcInternSliceOp(tbl, hp, t, a) ==
    LET value == Get(tbl, hp, t) IN
    IF value # None
    THEN [table |-> tbl, heap |-> ArcClone(hp, value), ret |-> value, hit |-> TRUE]
    ELSE LET n == ArcInsertNew(tbl, hp, ArcFrom(t), a) IN
         [table |-> n.table, heap |-> n.heap, ret |-> n.ret, hit |-> FALSE]

\* ArcInterner::intern_vec
ArcInternVecOp(tbl, hp, t, a) == ArcInternBoxedOp(tbl, hp, IntoBoxedSlice(t), a)

\* ArcInterner::intern_str
ArcInternStrOp(tbl, hp, t, a) ==
    LET value == Get(tbl, hp, t) IN
    IF value # None
    THEN [table |-> tbl, heap |-> ArcClone(hp, value), ret |-> value, hit |-> TRUE]
    ELSE LET n == ArcInsertNew(tbl, hp, ArcFrom(t), a) IN
         [table |-> n.table, heap |-> n.heap, ret |-> n.ret, hit |-> FALSE]

\* ArcInterner::intern_string
ArcInternStringOp(tbl, hp, t, a) == ArcInternBoxedOp(tbl, hp, IntoBoxedStr(t), a)

\* ArcInterner::shrink_to_fit
ArcShrinkToFitOp(tbl, hp) ==
    LET r == ArcRetain(tbl, hp) IN
    [table |-> HashSetShrinkToFit(r.table), heap |-> r.heap, removed |-> r.removed]

\* what the allocator may hand out to the ArcInterner's call
ArcCanAlloc(s0) ==
    IF s0.ret # None THEN {None} ELSE {b \in Pool(0) : arc.heap[b].strong = 0}

\* the two handles one call on each interner returned
PairHandle(ptr, aptr, t) ==
    IF ptr = None /\ aptr = None THEN EmptyBag
    ELSE SetToBag({[ptr |-> ptr, aptr |-> aptr, of |-> t]})

\* The call name(t) made on both interners, r and s its results
Both(name, r, s, t) ==
    /\ CanHold(r.ret)
    /\ table' = r.table
    /\ heap' = r.heap
    /\ arc' = [table |-> s.table, heap |-> s.heap, ret |-> s.ret,
               hit |-> s.hit, removed |-> {}]
    /\ handles' = handles (+) PairHandle(r.ret, s.ret, t)
    /\ last' = [op |-> name, arg |-> t, ret |-> r.ret, hit |-> r.hit,
                fate |-> r.fate, clones |-> r.clones, removed |-> {},
                again |-> FALSE]
    /\ UNCHANGED <<interned, registered, canon, alive, weaks, kind, run>>

PairTryIntern ==
    \E t \in ValueOf(kind) :
        Both("try_intern", TryInternOp(table, heap, t),
             ArcTryInternOp(arc.table, arc.heap, t), t)

PairIntern ==
    /\ kind = "sized"
    /\ \E t \in ValueOf(kind) :
        \E a \in CanAlloc(InternOp(table, heap, t, None)) :
            \E b \in ArcCanAlloc(ArcInternOp(arc.table, arc.heap, t, None)) :
                Both("intern", InternOp(table, heap, t, a),
                     ArcInternOp(arc.table, arc.heap, t, b), t)

PairInternBoxed ==
    \E t \in ValueOf(kind) :
        \E a \in CanAlloc(InternBoxedOp(table, heap, t, None)) :
            \E b \in ArcCanAlloc(ArcInternBoxedOp(arc.table, arc.heap, t, None)) :
                Both("intern_boxed", InternBoxedOp(table, heap, t, a),
                     ArcInternBoxedOp(arc.table, arc.heap, t, b), t)

PairInternCloned ==
    /\ kind = "sized"
    /\ \E t \in ValueOf(kind) :
        \E a \in CanAlloc(InternClonedOp(table, heap, t, None)) :
            \E b \in ArcCanAlloc(ArcInternClonedOp(arc.table, arc.heap, t, None)) :
                Both("intern_cloned", InternClonedOp(table, heap, t, a),
                     ArcInternClonedOp(arc.table, arc.heap, t, b), t)

PairInternSlice ==
    /\ kind = "slice"
    /\ \E t \in ValueOf(kind) :
        \E a \in CanAlloc(InternSliceOp(table, heap, t, None)) :
            \E b \in ArcCanAlloc(ArcInternSliceOp(arc.table, arc.heap, t, None)) :
                Both("intern_slice", InternSliceOp(table, heap, t, a),
                     ArcInternSliceOp(arc.table, arc.heap, t, b), t)

PairInternVec ==
    /\ kind = "slice"
    /\ \E v \in BufferOf(kind) :
        \E a \in CanAlloc(InternVecOp(table, heap, v, None)) :
            \E b \in ArcCanAlloc(ArcInternVecOp(arc.table, arc.heap, v, None)) :
                Both("intern_vec", InternVecOp(table, heap, v, a),
                     ArcInternVecOp(arc.table, arc.heap, v, b), IntoBoxedSlice(v))

PairInternStr ==
    /\ kind = "str"
    /\ \E t \in ValueOf(kind) :
        \E a \in CanAlloc(InternStrOp(table, heap, t, None)) :
            \E b \in ArcCanAlloc(ArcInternStrOp(arc.table, arc.heap, t, None)) :
                Both("intern_str", InternStrOp(table, heap, t, a),
                     ArcInternStrOp(arc.table, arc.heap, t, b), t)

PairInternString ==
    /\ kind = "str"
    /\ \E s \in BufferOf(kind) :
        \E a \in CanAlloc(InternStringOp(table, heap, s, None)) :
            \E b \in ArcCanAlloc(ArcInternStringOp(arc.table, arc.heap, s, None)) :
                Both("intern_string", InternStringOp(table, heap, s, a),
                     ArcInternStringOp(arc.table, arc.heap, s, b), IntoBoxedStr(s))

PairShrinkToFit ==
    LET r == ShrinkToFitOp(table, heap)
        s == ArcShrinkToFitOp(arc.table, arc.heap)
    IN /\ table' = r.table
       /\ heap' = r.heap
       /\ arc' = [table |-> s.table, heap |-> s.heap, ret |-> None,
                  hit |-> FALSE, removed |-> s.removed]
       /\ last' = [NoCall EXCEPT !.op = "shrink_to_fit", !.removed = r.removed,
                                 !.again = (last.op = "shrink_to_fit")]
       /\ UNCHANGED <<handles, interned, registered, canon, alive, weaks, kind, run>>

\* let z = y.clone(); on both sides
PairClone ==
    \E h \in BagToSet(handles) :
        /\ BagCardinality(handles) < MaxHandles
        /\ heap' = RcClone(heap, h.ptr)
        /\ arc' = [arc EXCEPT !.heap = ArcClone(@, h.aptr), !.ret = None,
                              !.hit = FALSE, !.removed = {}]
        /\ handles' = handles (+) SetToBag({h})
        /\ last' = [NoCall EXCEPT !.op = "clone"]
        /\ UNCHANGED <<table, interned, registered, canon, alive, weaks, kind, run>>

\* drop(x); on both sides
PairDrop ==
    \E h \in BagToSet(handles) :
        /\ heap' = RcDrop(heap, h.ptr)
        /\ arc' = [arc EXCEPT !.heap = ArcDrop(@, h.aptr), !.ret = None,
                              !.hit = FALSE, !.removed = {}]
        /\ handles' = handles (-) SetToBag({h})
        /\ last' = [NoCall EXCEPT !.op = "drop"]
        /\ UNCHANGED <<table, interned, registered, canon, alive, weaks, kind, run>>

NextPair ==
    \/ PairTryIntern
    \/ PairIntern
    \/ PairInternBoxed
    \/ PairInternCloned
    \/ PairInternSlice
    \/ PairInternVec
    \/ PairInternStr
    \/ PairInternString
    \/ PairShrinkToFit
    \/ PairClone
    \/ PairDrop

SpecPair == InitEntry /\ [][NextPair]_vars

\* ---- ArcInterner<T> shared between threads --------------------------------
\* Variant of ArcFetchAdd: the count is read, then written back one higher,
\* over whatever the other threads wrote in between
ArcFetchAddTorn(hp, a, seen) == [hp EXCEPT ![a].strong = seen + 1]

\* The fetch_add(1) of Arc::clone, by a thread that read the count as seen
\* when it started: the addition is made to the count as it is when it lands
ArcFetchAdd(hp, a, seen) == [hp EXCEPT ![a].strong = @ + 1]

\* retain's closure on one entry: Arc::strong_count(value) > 1
ArcRetainLoad(hp, a) == ArcStrongCount(hp, a)

\* retain on the entry the closure returned false for: it is removed from the
\* set and its Arc dropped; any other is kept
ArcRetainStep(tbl, hp, a, seen) ==
    IF seen > 1
    THEN [table |-> tbl, heap |-> hp, removed |-> {}]
    ELSE [table |-> tbl \ {a}, heap |-> ArcDrop(hp, a), removed |-> {hp[a].val}]

\* the clones under way: each will be one more handle held
InFlight == Cardinality({w \in Thread : run.pend[w] # NoClone})

\* a handle in the hands of thread w
HandleOf(ptr, t, w) == SetToBag({[ptr |-> ptr, of |-> t, thread |-> w]})

\* the owner calls interner.intern(t) and hands the Arc to thread w
OwnerIntern ==
    /\ run.pc = "idle"
    /\ BagCardinality(handles) + InFlight < MaxHandles
    /\ \E t \in Value : \E w \in Thread :
        \E b \in ArcCanAlloc(ArcInternOp(arc.table, arc.heap, t, None)) :
            LET s == ArcInternOp(arc.table, arc.heap, t, b) IN
            /\ arc' = [table |-> s.table, heap |-> s.heap, ret |-> s.ret,
                       hit |-> s.hit, removed |-> {}]
            /\ handles' = handles (+) HandleOf(s.ret, t, w)
    /\ UNCHANGED <<table, heap, last, interned, registered, canon, alive, weaks,
                   kind, run>>

\* the owner calls interner.shrink_to_fit(): retain starts its scan
ShrinkBegin ==
    /\ run.pc = "idle"
    /\ run' = [run EXCEPT !.pc = "scan", !.todo = arc.table, !.removed = {}]
    /\ arc' = [arc EXCEPT !.ret = None, !.hit = FALSE, !.removed = {}]
    /\ UNCHANGED <<table, heap, handles, last, interned, registered, canon, alive,
                   weaks, kind>>

\* retain comes to an entry and loads its strong count
ShrinkLoad ==
    /\ run.pc = "scan"
    /\ \E a \in run.todo :
        run' = [run EXCEPT !.pc = "decide", !.todo = @ \ {a}, !.at = a,
                           !.seen = ArcRetainLoad(arc.heap, a)]
    /\ UNCHANGED <<table, heap, handles, last, interned, registered, canon, alive,
                   weaks, kind, arc>>

\* retain keeps or removes the entry, by the count it loaded
ShrinkStep ==
    /\ run.pc = "decide"
    /\ LET s == ArcRetainStep(arc.table, arc.heap, run.at, run.seen) IN
        /\ arc' = [arc EXCEPT !.table = s.table, !.heap = s.heap]
        /\ run' = [run EXCEPT !.pc = "scan", !.at = None, !.seen = 0,
                              !.removed = @ \cup s.removed]
    /\ UNCHANGED <<table, heap, handles, last, interned, registered, canon, alive,
                   weaks, kind>>

\* the scan is over: self.0.shrink_to_fit(), and the call returns
ShrinkEnd ==
    /\ run.pc = "scan"
    /\ run.todo = {}
    /\ arc' = [arc EXCEPT !.table = HashSetShrinkToFit(@), !.ret = None,
                          !.hit = FALSE, !.removed = run.removed]
    /\ run' = [run EXCEPT !.pc = "idle", !.removed = {}]
    /\ UNCHANGED <<table, heap, handles, last, interned, registered, canon, alive,
                   weaks, kind>>

\* thread w starts h.clone() on a handle it holds
CloneBegin ==
    /\ BagCardinality(handles) + InFlight < MaxHandles
    /\ \E h \in BagToSet(handles) :
        /\ run.pend[h.thread] = NoClone
        /\ run' = [run EXCEPT !.pend[h.thread] =
                        [ptr |-> h.ptr, seen |-> ArcStrongCount(arc.heap, h.ptr)]]
    /\ UNCHANGED <<table, heap, handles, last, interned, registered, canon, alive,
                   weaks, kind, arc>>

\* thread w's fetch_add lands and it holds one more handle
CloneCommit ==
    \E w \in Thread :
        LET p == run.pend[w] IN
        /\ p # NoClone
        /\ arc' = [arc EXCEPT !.heap = ArcFetchAdd(@, p.ptr, p.seen)]
        /\ handles' = handles (+) HandleOf(p.ptr, arc.heap[p.ptr].val, w)
        /\ run' = [run EXCEPT !.pend[w] = NoClone]
        /\ UNCHANGED <<table, heap, last, interned, registered, canon, alive, weaks,
                       kind>>

\* thread w drops a handle it holds (not while it is cloning: it is one thread)
ThreadDrop ==
    \E h \in BagToSet(handles) :
        /\ run.pend[h.thread] = NoClone
        /\ arc' = [arc EXCEPT !.heap = ArcDrop(@, h.ptr)]
        /\ handles' = handles (-) SetToBag({h})
        /\ UNCHANGED <<table, heap, last, interned, registered, canon, alive, weaks,
                       kind, run>>

NextArc ==
    \/ OwnerIntern
    \/ ShrinkBegin
    \/ ShrinkLoad
    \/ ShrinkStep
    \/ ShrinkEnd
    \/ CloneBegin
    \/ CloneCommit
    \/ ThreadDrop

SpecArc == Init /\ [][NextArc]_vars

\* ---- what the state and a step show ------------------------------------
InternFamily == {"intern", "intern_boxed", "intern_cloned"}

\* the handles held that were obtained for value v
HeldFor(v) == {h \in BagToSet(handles) : h.of = v}

\* the handles held that point at allocation a
HeldAt(a) == {h \in BagToSet(handles) : h.ptr = a}

\* how many handles for value v pointing at allocation a are held
Copies(a, v) == CopiesIn([ptr |-> a, of |-> v], handles)

\* Rc::ptr_eq on what try_intern(&v) would return now
Lookup(v) == TryInternOp(table, heap, v).ret

\* ---- C1 ---------------------------------------------------------------
\* C1 (dedup identity): when intern(v2) returns, its handle is pointer-identical
\* to every handle still held that an earlier call returned for an equal value,
\* whatever calls were made in between.
C1_DedupIdentity ==
    last.op = "intern" =>
        \A h \in HeldFor(last.arg) : h.ptr = last.ret

\* an intern hit while two other handles for the same value are held and the
\* other value has been interned too
C1_Witness ==
    /\ last.op = "intern"
    /\ last.hit
    /\ Copies(last.ret, last.arg) = 3
    /\ interned = {42, 1337}
    /\ \A h \in HeldFor(last.arg) : h.ptr = last.ret

\* ---- C2 ---------------------------------------------------------------
\* C2 (reclamation rule): a shrink_to_fit call removes exactly the entries whose
\* strong count is 1 when it is called and keeps exactly those whose count is
\* above 1; afterwards try_intern of a value finds nothing when no handle for
\* it is held, and finds the allocation of the held handles otherwise (x =
\* intern(42), y = intern(1337), z = y.clone(), drop x, drop y: 42 is gone and
\* 1337 is found at z).
C2_Reclamation ==
    [][last'.op = "shrink_to_fit" =>
        /\ table' = {a \in table : heap[a].strong > 1}
        /\ table \ table' = {a \in table : heap[a].strong = 1}
        /\ \A v \in Value :
            /\ HeldFor(v) = {} => TryInternOp(table', heap', v).ret = None
            /\ \A h \in HeldFor(v) :
                    TryInternOp(table', heap', v).ret = h.ptr]_vars

\* shrink_to_fit just removed 42 (no handle left) and kept 1337, held by one
\* handle only (z)
C2_Witness ==
    /\ last.op = "shrink_to_fit"
    /\ 42 \in last.removed
    /\ HeldFor(42) = {}
    /\ Lookup(42) = None
    /\ Copies(Lookup(1337), 1337) = 1
    /\ \A h \in HeldFor(1337) : Lookup(1337) = h.ptr
    /\ registered[1337] = 1

\* ---- C3 ---------------------------------------------------------------
\* C3 (miss then hit): try_intern(v) returns None as long as no intern-family
\* call was made with a value equal to v (in particular on a new interner), and
\* once such a call returned handle h, try_intern(v) returns Some handle
\* pointer-identical to h until shrink_to_fit removes the entry.
C3_MissThenHit ==
    /\ \A v \in Value \ interned : Lookup(v) = None
    /\ \A v \in Value : canon[v] # None => Lookup(v) = canon[v]
    /\ last.op = "try_intern" =>
        /\ last.arg \notin interned => last.ret = None
        /\ canon[last.arg] # None => last.ret = canon[last.arg]

\* try_intern(1337) missed because only 42 was interned, and a try_intern(42)
\* now returns the allocation intern returned
C3_Witness ==
    /\ last.op = "try_intern"
    /\ last.arg = 1337
    /\ last.ret = None
    /\ interned = {42}
    /\ canon[42] # None
    /\ Lookup(42) = canon[42]

\* ---- C4 ---------------------------------------------------------------
\* C4 (live handles are never evicted): an entry leaves the table only in a
\* shrink_to_fit call and only when no handle variable points at it; so every
\* held handle points at the table's entry for its value and try_intern of that
\* value returns that allocation.
C4_HeldIsCanonical ==
    \A h \in BagToSet(handles) :
        /\ h.ptr \in table
        /\ heap[h.ptr].val = h.of
        /\ Find(table, heap, h.of) = {h.ptr}
        /\ Lookup(h.of) = h.ptr

C4_LiveNeverEvicted ==
    [][/\ C4_HeldIsCanonical
       /\ C4_HeldIsCanonical'
       /\ \A a \in table \ table' :
            /\ last'.op = "shrink_to_fit"
            /\ HeldAt(a) = {}]_vars

\* shrink_to_fit removed one entry while the other, pointed at by a handle,
\* stayed
C4_Witness ==
    /\ last.op = "shrink_to_fit"
    /\ last.removed # {}
    /\ \E h \in BagToSet(handles) : h.ptr \in table /\ heap[h.ptr].strong = 2

\* ---- C5 ---------------------------------------------------------------
\* C5 (uniqueness): the table never holds two entries with equal values.
C5_Uniqueness ==
    \A a \in table : \A b \in table : heap[a].val = heap[b].val => a = b

\* intern_boxed with a value already in a table of two entries, after that
\* value had been removed and inserted again
C5_Witness ==
    /\ last.op = "intern_boxed"
    /\ last.hit
    /\ Cardinality(table) = 2
    /\ registered[last.arg] = 2

\* ---- C6 ---------------------------------------------------------------
\* C6 (effect of one intern call): with an entry equal to v in the table the
\* entries stay as they were, the argument is dropped and the returned handle
\* is the entry with its strong count one higher; without one the table gains
\* exactly the new allocation holding v, returned with strong count 2, the
\* argument moved into it.  Nothing else changes.
C6_InternEffect ==
    [][last'.op = "intern" =>
        LET v == last'.arg
            r == last'.ret
        IN /\ handles' = handles (+) SetToBag({[ptr |-> r, of |-> v]})
           /\ IF \E a \in table : heap[a].val = v
              THEN /\ table' = table
                   /\ r \in table
                   /\ heap[r].val = v
                   /\ heap' = [heap EXCEPT ![r].strong = @ + 1]
                   /\ last'.hit
                   /\ last'.fate = "dropped"
              ELSE /\ r \notin table
                   /\ heap[r].strong = 0
                   /\ table' = table \cup {r}
                   /\ heap' = [heap EXCEPT ![r] = [val |-> v, strong |-> 2]]
                   /\ ~last'.hit
                   /\ last'.fate = "moved"]_vars

\* an intern miss that added a second entry, returned with strong count 2
C6_Witness ==
    /\ last.op = "intern"
    /\ ~last.hit
    /\ Cardinality(table) = 2
    /\ last.ret \in table
    /\ heap[last.ret] = [val |-> last.arg, strong |-> 2]

\* ---- C7 ---------------------------------------------------------------
\* C7 (try_intern is a lookup): try_intern never changes the set of entries or
\* any stored value; a hit raises the strong count of the found entry by one
\* and nothing else, a miss returns None and changes nothing.
C7_TryInternPure ==
    [][last'.op = "try_intern" =>
        LET v == last'.arg
            r == last'.ret
        IN /\ table' = table
           /\ \A a \in Addr : heap'[a].val = heap[a].val
           /\ UNCHANGED <<interned, registered, canon>>
           /\ IF \E a \in table : heap[a].val = v
              THEN /\ r \in table
                   /\ heap[r].val = v
                   /\ heap' = [heap EXCEPT ![r].strong = @ + 1]
              ELSE /\ r = None
                   /\ heap' = heap
                   /\ handles' = handles]_vars

\* a try_intern hit on an entry no handle pointed at, next to another entry
C7_Witness ==
    /\ last.op = "try_intern"
    /\ last.hit
    /\ last.ret \in table
    /\ Copies(last.ret, last.arg) = 1
    /\ heap[last.ret].strong = 2
    /\ Cardinality(table) = 2

\* ---- C8 ---------------------------------------------------------------
\* C8 (resident until compaction): only shrink_to_fit removes entries.  An
\* entry nobody holds (strong count 1) stays, same allocation and value, through
\* every other call; try_intern or an intern-family call with an equal value
\* returns that allocation, its count then 2; and a shrink_to_fit called while
\* a handle to an entry is held keeps the entry.
C8_ResidentUntilShrink ==
    [][/\ last'.op # "shrink_to_fit" =>
            \A a \in table : a \in table' /\ heap'[a].val = heap[a].val
       /\ \A a \in table :
            (/\ heap[a].strong = 1
             /\ last'.op \in InternFamily \cup {"try_intern"}
             /\ last'.arg = heap[a].val)
            => /\ last'.ret = a
               /\ heap'[a] = [val |-> last'.arg, strong |-> 2]
       /\ last'.op = "shrink_to_fit" =>
            \A a \in table : HeldAt(a) # {} => a \in table' /\ heap'[a] = heap[a]]_vars

\* intern of a value whose entry had no handle left (count 2 after the call):
\* the allocation registered first is returned, the other value interned too
C8_Witness ==
    /\ last.op = "intern"
    /\ last.hit
    /\ heap[last.ret].strong = 2
    /\ registered[last.arg] = 1
    /\ interned = {42, 1337}
    /\ last.ret \in table

\* ---- C9 ---------------------------------------------------------------
\* C9 as stated (one allocation per value over any sequence of operations):
\* no value ever has a second allocation inserted in the table.
C9_OneAllocationEver ==
    \A v \in Value : registered[v] <= 1

\* C9 as amended: an allocation is inserted for a value only when the table has
\* no entry for it (never interned, or its entry removed by shrink_to_fit since),
\* however many equal temporaries are passed; an entry stays the value's single
\* entry, at the same allocation, until a shrink_to_fit call finds its strong
\* count at 1.
C9_OneAllocationUntilPurged ==
    [][\A v \in Value :
        LET before == {a \in table : heap[a].val = v}
            after == {a \in table' : heap'[a].val = v}
        IN /\ Cardinality(after) <= 1
           /\ registered'[v] # registered[v] =>
                /\ before = {}
                /\ registered'[v] = registered[v] + 1
                /\ last'.op \in InternFamily
                /\ last'.arg = v
                /\ after = {last'.ret}
           /\ (before = {} /\ after # {}) => registered'[v] = OneMore(registered[v])
           /\ before # {} =>
                \/ after = before
                \/ /\ after = {}
                   /\ last'.op = "shrink_to_fit"
                   /\ \A a \in before : heap[a].strong = 1
           /\ (before # {} /\ last'.op \in InternFamily /\ last'.arg = v) =>
                /\ last'.ret \in before
                /\ last'.fate \in {"dropped", "borrowed"}
                /\ registered' = registered]_vars

\* a second allocation was inserted for a value after its first was removed,
\* and a further intern of an equal temporary hit it
C9_Witness ==
    /\ last.op = "intern"
    /\ last.hit
    /\ last.fate = "dropped"
    /\ registered[last.arg] = 2
    /\ Find(table, heap, last.arg) = {last.ret}

\* ---- C10 --------------------------------------------------------------
\* C10 (intern_cloned): intern_cloned(&v) changes the table and the counts and
\* returns exactly as intern(v) would, clones the argument once on a miss and
\* not at all on a hit, leaves the argument with the caller, and returns the
\* allocation of every handle still held for an equal value, the entry for v
\* staying where it was.
C10_InternCloned ==
    [][last'.op = "intern_cloned" =>
        LET v == last'.arg
            before == {a \in table : heap[a].val = v}
            r == InternOp(table, heap, v, last'.ret)
        IN /\ last'.fate = "borrowed"
           /\ last'.clones = IF before = {} THEN 1 ELSE 0
           /\ table' = r.table
           /\ heap' = r.heap
           /\ last'.ret = r.ret
           /\ last'.hit = r.hit
           /\ \A h \in HeldFor(v) : h.ptr = last'.ret
           /\ before # {} => {a \in table' : heap'[a].val = v} = before]_vars

\* the second of two intern_cloned calls with equal values, the first handle
\* still held: a hit without a clone
C10_Witness ==
    /\ last.op = "intern_cloned"
    /\ last.hit
    /\ last.clones = 0
    /\ interned = {last.arg}
    /\ registered[last.arg] = 1
    /\ Copies(last.ret, last.arg) = 2
    /\ \A h \in HeldFor(last.arg) : h.ptr = last.ret

\* ---- C12 --------------------------------------------------------------
\* C12 (value fidelity): the handle a call returns, on a hit or a miss, points
\* at a value equal to the call's argument, and so does every handle held;
\* handles obtained for unequal values point at different allocations holding
\* unequal values.
C12_ValueFidelity ==
    /\ last.ret # None => heap[last.ret].val = last.arg
    /\ \A h \in BagToSet(handles) : heap[h.ptr].val = h.of
    /\ \A h \in BagToSet(handles) : \A g \in BagToSet(handles) :
            h.of # g.of =>
                /\ h.ptr # g.ptr
                /\ heap[h.ptr].val # heap[g.ptr].val

\* a try_intern hit returned a handle to its argument while a handle for the
\* other value is held
C12_Witness ==
    /\ last.op = "try_intern"
    /\ last.hit
    /\ heap[last.ret].val = last.arg
    /\ \E g \in BagToSet(handles) : g.of # last.arg /\ g.ptr # last.ret

\* ---- C13 --------------------------------------------------------------
\* C13 (non-interference): an intern-family call with value w, hit or miss,
\* leaves every entry for another value where it was, same allocation, same
\* value, same strong count, found by try_intern, its handles still held.
C13_NonInterference ==
    [][last'.op \in InternFamily =>
        \A a \in table : heap[a].val # last'.arg =>
            /\ a \in table'
            /\ heap'[a] = heap[a]
            /\ TryInternOp(table', heap', heap[a].val).ret = a
            /\ \A h \in HeldAt(a) : CopiesIn(h, handles') = CopiesIn(h, handles)]_vars

\* 1337 was just interned for the first time while a handle for 42 is held
\* and 42 is still found at it
C13_Witness ==
    /\ last.op = "intern"
    /\ last.arg = 1337
    /\ ~last.hit
    /\ \E h \in HeldFor(42) : Lookup(42) = h.ptr /\ heap[h.ptr].strong = 2

\* ---- C14 --------------------------------------------------------------
\* C14 (idempotent compaction): a shrink_to_fit call made right after another
\* one removes nothing and leaves entries, allocations and strong counts as
\* the first call left them.
C14_IdempotentCompaction ==
    [][(last.op = "shrink_to_fit" /\ last'.op = "shrink_to_fit") =>
        /\ table' = table
        /\ heap' = heap
        /\ handles' = handles
        /\ last'.removed = {}]_vars

\* the second of two shrink_to_fit calls in a row, on a table that kept an
\* entry and had lost one
C14_Witness ==
    /\ last.op = "shrink_to_fit"
    /\ last.again
    /\ last.removed = {}
    /\ table # {}
    /\ \E v \in Value : registered[v] > 0 /\ Lookup(v) = None

\* ---- C15 --------------------------------------------------------------
\* C15 (table size): an intern-family call leaves the number of entries as it
\* was on a hit and raises it by one on a miss; try_intern, clone and drop
\* leave the table as it was; only shrink_to_fit makes it smaller.
C15_SizeMonotone ==
    [][LET n == Cardinality(table)
           m == Cardinality(table')
       IN /\ last'.op \in InternFamily =>
               m = IF \E a \in table : heap[a].val = last'.arg THEN n ELSE n + 1
          /\ last'.op \in {"try_intern", "clone", "drop"} => table' = table
          /\ m < n => last'.op = "shrink_to_fit"]_vars

\* shrink_to_fit emptied a table of two entries
C15_Witness ==
    /\ last.op = "shrink_to_fit"
    /\ last.removed = {42, 1337}
    /\ table = {}

\* ---- C20 --------------------------------------------------------------
\* the handles held that point at allocation a, as a bag
HandlesAt(a) == [h \in HeldAt(a) |-> handles[h]]

\* C20 (reference-count accounting): the strong count of every entry is 1, for
\* the table, plus the number of handles held to its allocation; it is never
\* 0, it is 2 right after a miss, and no allocation lives outside the table.
C20_Accounting ==
    /\ \A a \in table : heap[a].strong = 1 + BagCardinality(HandlesAt(a))
    /\ \A a \in Addr \ table : heap[a].strong = 0
    /\ (last.op \in InternFamily /\ ~last.hit) => heap[last.ret].strong = 2

\* one entry with two handles held (count 3) next to one with none (count 1)
C20_Witness ==
    \E a \in table : \E b \in table :
        /\ heap[a].strong = 3
        /\ BagCardinality(HandlesAt(a)) = 2
        /\ heap[b].strong = 1

\* ---- C18 --------------------------------------------------------------
\* every handle held points at a live allocation holding its value, whose
\* strong count is the number of handles held to it: no table has a share
HandlesOwnAll ==
    \A h \in BagToSet(handles) :
        /\ heap[h.ptr].val = h.of
        /\ heap[h.ptr].strong = BagCardinality(HandlesAt(h.ptr))

\* C18 (dropping the interner): the drop takes one strong reference from
\* every entry and nothing else; an entry no handle pointed at is deallocated,
\* a value still held stays alive and readable with its count one lower, and
\* from then on the handles live on their own, cloned and dropped as before.
C18_InternerDrop ==
    [][/\ last'.op = "drop_interner" =>
            /\ table' = {}
            /\ handles' = handles
            /\ \A a \in table : heap'[a].strong = heap[a].strong - 1
            /\ \A a \in table : heap[a].strong = 1 => heap'[a] = FreeCell
            /\ \A a \in table : heap[a].strong > 1 => heap'[a].val = heap[a].val
            /\ \A a \in Addr \ table : heap'[a] = heap[a]
       /\ ~alive' => HandlesOwnAll']_vars

\* the interner was just dropped with one entry unreferenced and one held
C18_Witness ==
    /\ ~alive
    /\ last.op = "drop_interner"
    /\ last.removed # {}
    /\ \E h \in BagToSet(handles) : heap[h.ptr] = [val |-> h.of, strong |-> 1]

\* ---- C19 --------------------------------------------------------------
\* C19 (weak references do not count): shrink_to_fit removes and destroys
\* every entry whose strong count is 1, however many Weak point at it, and a
\* Weak to it no longer upgrades; it keeps every entry whose strong count is
\* above 1, Weak or no Weak.
C19_StrongCountOnly ==
    [][/\ last'.op = "shrink_to_fit" =>
            \A a \in table :
                /\ heap[a].strong = 1 =>
                        /\ a \notin table'
                        /\ heap'[a].strong = 0
                        /\ UpgradeOp(heap', a).ret = None
                /\ heap[a].strong > 1 =>
                        /\ a \in table'
                        /\ heap'[a] = heap[a]
       /\ (last'.op = "upgrade" /\ heap[last'.arg].strong = 0) =>
            /\ last'.ret = None
            /\ heap' = heap
            /\ handles' = handles]_vars

\* shrink_to_fit removed an entry and kept one, and a Weak points at a
\* destroyed value
C19_Witness ==
    /\ last.op = "shrink_to_fit"
    /\ last.removed # {}
    /\ table # {}
    /\ \E a \in Pinned : WeakCount(a) = MaxWeaks

\* ---- C11 --------------------------------------------------------------
EntryPoints ==
    {"intern", "intern_cloned", "intern_boxed", "intern_slice", "intern_vec",
     "intern_str", "intern_string"}

\* two results of a call: same table, same allocations and counts, same
\* handle, same hit or miss
SameOutcome(r, s) ==
    /\ r.table = s.table
    /\ r.heap = s.heap
    /\ r.ret = s.ret
    /\ r.hit = s.hit

\* in the state reached, every entry point T has, given equal content and
\* the same memory from the allocator, does what intern_boxed does
EntryPointsAgree ==
    \A t \in ValueOf(kind) :
        \A a \in {None} \cup {b \in Addr : IsFree(heap, b)} :
            LET boxed == InternBoxedOp(table, heap, t, a) IN
            /\ kind = "sized" =>
                    /\ SameOutcome(InternOp(table, heap, t, a), boxed)
                    /\ SameOutcome(InternClonedOp(table, heap, t, a), boxed)
            /\ kind = "slice" =>
                    /\ SameOutcome(InternSliceOp(table, heap, t, a), boxed)
                    /\ \A v \in BufferOf(kind) : v.data = t =>
                            SameOutcome(InternVecOp(table, heap, v, a), boxed)
            /\ kind = "str" =>
                    /\ SameOutcome(InternStrOp(table, heap, t, a), boxed)
                    /\ \A s \in BufferOf(kind) : s.data = t =>
                            SameOutcome(InternStringOp(table, heap, s, a), boxed)

\* C11 (entry-point equivalence): the insert-or-get entry points of an
\* interner work on one table with the same hit and miss behaviour, whatever
\* form the argument comes in: a call with content the table holds is a hit
\* that returns the entry every handle held for that content points at,
\* whichever entry point returned those; a call with content it does not
\* hold inserts one new entry.
C11_EntryPointsEquivalent ==
    /\ []EntryPointsAgree
    /\ [][last'.op \in EntryPoints =>
            LET t == last'.arg
                r == last'.ret
            IN IF \E a \in table : heap[a].val = t
               THEN /\ last'.hit
                    /\ table' = table
                    /\ r \in table
                    /\ heap[r].val = t
                    /\ \A h \in HeldFor(t) : h.ptr = r
               ELSE /\ ~last'.hit
                    /\ table' = table \cup {r}
                    /\ IsFree(heap, r)
                    /\ heap'[r] = [val |-> t, strong |-> 2]]_vars

\* "hello" interned as an owned String is a hit on the entry a handle from
\* intern_str and a handle from intern_boxed point at
C11_Witness ==
    /\ kind = "str"
    /\ last.op = "intern_string"
    /\ last.hit
    /\ \E h \in BagToSet(handles) : h.by = "intern_str" /\ h.ptr = last.ret
    /\ \E h \in BagToSet(handles) : h.by = "intern_boxed" /\ h.ptr = last.ret

\* ---- C17 --------------------------------------------------------------
\* the values the RcInterner holds, and the ArcInterner
RcEntries == {heap[a].val : a \in table}
ArcEntries == {arc.heap[b].val : b \in arc.table}

\* C17 (variant equivalence): after any sequence of calls made on an
\* RcInterner and an ArcInterner alike, the last call hit or missed on both,
\* returned a handle on both or on neither and removed the same values, two
\* handles point at one allocation on one side iff they do on the other, the
\* strong counts behind corresponding handles and entries are equal, and the
\* two tables hold the same values.
C17_VariantsEquivalent ==
    /\ last.hit = arc.hit
    /\ (last.ret = None) = (arc.ret = None)
    /\ last.removed = arc.removed
    /\ \A h \in BagToSet(handles) :
            /\ h.ptr # None /\ h.aptr # None
            /\ heap[h.ptr].val = arc.heap[h.aptr].val
            /\ heap[h.ptr].strong = arc.heap[h.aptr].strong
            /\ (h.ptr \in table) = (h.aptr \in arc.table)
            /\ (h.ptr = last.ret) = (h.aptr = arc.ret)
            /\ \A g \in BagToSet(handles) : (h.ptr = g.ptr) = (h.aptr = g.aptr)
    /\ RcEntries = ArcEntries
    /\ Cardinality(table) = Cardinality(arc.table)
    /\ \A a \in table : \A b \in arc.table :
            heap[a].val = arc.heap[b].val => heap[a].strong = arc.heap[b].strong

\* shrink_to_fit removed an entry on both sides and kept one that is held
\* through two handles, at different addresses on the two sides
C17_Witness ==
    /\ last.op = "shrink_to_fit"
    /\ arc.removed # {}
    /\ \E h \in BagToSet(handles) :
            /\ h.ptr # h.aptr
            /\ h.aptr \in arc.table
            /\ arc.heap[h.aptr].strong = 3
            /\ heap[h.ptr].strong = 3

\* ---- C16 --------------------------------------------------------------
\* the handles the threads hold to the Arc allocation at b, as a bag
ArcHandlesAt(b) == [h \in {g \in BagToSet(handles) : g.ptr = b} |-> handles[h]]

\* C16 (ArcInterner between threads): while the owner of the table interns
\* and compacts and the other threads clone and drop the handles they hold,
\* in any interleaving, every strong count is the table's reference plus the
\* handles held (no update is lost), every handle held points at a live
\* allocation holding its value, whose entry is in the table, and from the
\* moment shrink_to_fit returns until the owner's next call no thread holds a
\* handle for a value it removed.
C16_ConcurrentHandles ==
    /\ \A b \in Addr :
            arc.heap[b].strong =
                (IF b \in arc.table THEN 1 ELSE 0) + BagCardinality(ArcHandlesAt(b))
    /\ \A h \in BagToSet(handles) :
            /\ arc.heap[h.ptr].strong >= 2
            /\ arc.heap[h.ptr].val = h.of
            /\ h.ptr \in arc.table
    /\ \A h \in BagToSet(handles) : h.of \notin arc.removed \cup run.removed

\* retain loaded a count of 2 for an entry, and before it acts on it the only
\* handle to that entry was dropped by its thread, while another thread is
\* inside a clone
C16_Witness ==
    /\ run.pc = "decide"
    /\ run.seen = 2
    /\ arc.heap[run.at].strong = 1
    /\ \E w \in Thread : run.pend[w] # NoClone

====
